---- MODULE Spec2Model ----
(***************************************************************************)
(* Time-zone resolution of temporal_rs: UtcOffset, TimeZone, the mapping   *)
(* between local date-times and instants, disambiguation and start of day  *)
(* (src/src/builtins/core/timezone.rs), with the construction entry points *)
(* of the C API (src/temporal_capi/src/time_zone.rs).                      *)
(*                                                                         *)
(* Units.  TLC's integers are 32 bits wide, the program's nanosecond       *)
(* counts are 64 and 128 bits wide.  Every quantity the program counts in  *)
(* nanoseconds is counted here in ticks of a tenth of a second, so         *)
(* NS_IN_S is 10 ticks; a minute, an hour and a day keep their ratios to   *)
(* it.  A sub-second fraction therefore has one decimal digit.  Offsets in *)
(* minutes (i16) and in seconds (the provider's) keep their own units and  *)
(* their full range.                                                       *)
(*                                                                         *)
(* Texts are sequences of one-character strings, so that formatting and    *)
(* parsing are computed character by character.                            *)
(*                                                                         *)
(* Records.  Every record is written with its fields in the order of their *)
(* first appearance in this module, which is the order TLC sorts them in:  *)
(* a record shared by two workers is then never reordered while it is read.*)
(***************************************************************************)
EXTENDS Integers, Sequences, FiniteSets, TLC

\* timezone.rs:29, in ticks (see Units)
NS_IN_S == 10
\* timezone.rs:30
NS_IN_MIN == 60 * NS_IN_S
\* timezone.rs:28
NS_IN_HOUR == 60 * 60 * NS_IN_S
NS_PER_DAY == 24 * NS_IN_HOUR

\* The representable-instant bound, in days either side of the epoch
\* (10^8 days in the program).
MaxEpochDays == 40
NS_MAX_INSTANT == MaxEpochDays * NS_PER_DAY

\* Option: None, Some(v)
None == <<>>
Some(v) == <<v>>
IsSome(o) == o /= <<>>
Unwrap(o) == o[1]

----------------------------------------------------------------------------
(* Integer helpers: Rust's / and % truncate toward zero; balancing floors. *)

Abs(x) == IF x < 0 THEN -x ELSE x
TruncDiv(a, b) == IF a >= 0 THEN a \div b ELSE -((-a) \div b)
TruncRem(a, b) == a - b * TruncDiv(a, b)

I16_MIN == -32768
I16_MAX == 32767
InI16(x) == x >= I16_MIN /\ x <= I16_MAX
WrapI16(x) == ((x - I16_MIN) % 65536) + I16_MIN
U8_MAX == 255

----------------------------------------------------------------------------
(* Results: Ok(v), Err(e) of TemporalResult, and a panic of the thread.    *)

Ok(v) == [tag |-> "Ok", val |-> v, err |-> ""]
Err(e) == [tag |-> "Err", val |-> None, err |-> e]
Panic(e) == [tag |-> "Panic", val |-> None, err |-> e]
IsOk(r) == r.tag = "Ok"

----------------------------------------------------------------------------
(* Decimal text.                                                           *)

Digits == <<"0", "1", "2", "3", "4", "5", "6", "7", "8", "9">>
IsDigit(c) == \E i \in 1..10 : Digits[i] = c
DigitChar(n) == Digits[n + 1]
DigitVal(c) == (CHOOSE i \in 1..10 : Digits[i] = c) - 1

RECURSIVE Decimal(_)
Decimal(v) == IF v < 10 THEN <<DigitChar(v)>>
              ELSE Append(Decimal(v \div 10), DigitChar(v % 10))

\* {:02}: at least two digits, zero padded
Pad2(v) == IF v < 10 THEN <<"0", DigitChar(v)>> ELSE Decimal(v)

\* the value of a two-digit field, or -1
TwoDigits(s, i) ==
    IF i + 1 <= Len(s) /\ IsDigit(s[i]) /\ IsDigit(s[i + 1])
    THEN 10 * DigitVal(s[i]) + DigitVal(s[i + 1])
    ELSE -1

----------------------------------------------------------------------------
(* The offset parser (ixdtf's TimeZoneParser::parse_offset) and the offset *)
(* writer (FormattableOffset), by the textual offset format                *)
(* SIGN HH : MM [ : SS [ . F ] ].                                          *)

SignOf(c) == IF c = "+" THEN 1 ELSE IF c = "-" THEN -1 ELSE 0

AllDigits(s) == \A i \in DOMAIN s : IsDigit(s[i])

\* UtcOffsetRecord: sign, hour, minute, optional second, optional fraction
\* (the fraction's digits as written)
parse_offset(s) ==
    IF Len(s) < 6 \/ SignOf(s[1]) = 0 \/ s[4] /= ":" THEN Err("ParseError")
    ELSE LET h == TwoDigits(s, 2)
             m == TwoDigits(s, 5)
             rec == [sign |-> SignOf(s[1]), hour |-> h, minute |-> m,
                     second |-> None, fraction |-> None]
         IN  IF h < 0 \/ h > 23 \/ m < 0 \/ m > 59 THEN Err("ParseError")
             ELSE IF Len(s) = 6 THEN Ok(rec)
             ELSE IF Len(s) < 9 \/ s[7] /= ":" \/ TwoDigits(s, 8) < 0
                      \/ TwoDigits(s, 8) > 59 THEN Err("ParseError")
             ELSE IF Len(s) = 9 THEN Ok([rec EXCEPT !.second = Some(TwoDigits(s, 8))])
             ELSE IF Len(s) < 11 \/ s[10] /= "." \/ ~AllDigits(SubSeq(s, 11, Len(s)))
                  THEN Err("ParseError")
             ELSE Ok([rec EXCEPT !.second = Some(TwoDigits(s, 8)),
                                 !.fraction = Some(SubSeq(s, 11, Len(s)))])

\* Fraction::to_nanoseconds: none for more than nine digits.  A tick is a
\* tenth of a second, so the first digit is the whole value.
to_nanoseconds(frac) ==
    IF Len(frac) > 9 THEN None ELSE Some(DigitVal(frac[1]) * (NS_IN_S \div 10))

\* FormattableOffset::to_string
FormattableOffset_to_string(sign, hour, minute, second, nanosecond, precision) ==
    <<IF sign < 0 THEN "-" ELSE "+">> \o Pad2(hour) \o <<":">> \o Pad2(minute)
    \o (IF precision = "Minute" THEN <<>>
        ELSE <<":">> \o Pad2(second)
             \o (IF nanosecond = 0 THEN <<>>
                 ELSE <<".", DigitChar(nanosecond \div (NS_IN_S \div 10))>>))

----------------------------------------------------------------------------
(* UtcOffset: a count of nanoseconds (i64).                                *)

\* timezone.rs:112
from_minutes(minutes) == minutes * NS_IN_MIN

\* the quotient rounded down, not toward zero
minutes_floor(self) ==
    LET q == self \div NS_IN_MIN IN IF InI16(q) THEN q ELSE 0

\* timezone.rs:116, i16::try_from(..).unwrap_or(0)
minutes(self) ==
    LET q == TruncDiv(self, NS_IN_MIN) IN IF InI16(q) THEN q ELSE 0

\* timezone.rs:120
nanoseconds(self) == self

\* timezone.rs:124
is_sub_minute(self) == TruncRem(self, NS_IN_MIN) /= 0

\* the sign of the record is dropped
from_ixdtf_minute_record_unsigned(record) ==
    from_minutes(record.hour * 60 + record.minute)

\* timezone.rs:37; record: [sign, hour, minute] (MinutePrecisionOffset)
from_ixdtf_minute_record(record) ==
    from_minutes((record.hour * 60 + record.minute) * record.sign)

\* timezone.rs:43
from_ixdtf_record(record) ==
    LET hours == record.hour
        mins == 60 * hours + record.minute
        sign == record.sign
    IN  IF IsSome(record.second)
        THEN LET seconds == 60 * mins + Unwrap(record.second)
                 ns == seconds * NS_IN_S
             IN  IF IsSome(record.fraction)
                 THEN LET frac == to_nanoseconds(Unwrap(record.fraction))
                      IN  IF ~IsSome(frac)
                          THEN Err("FractionalTimeMoreThanNineDigits")
                          ELSE Ok((ns + Unwrap(frac)) * sign)
                 ELSE Ok(ns * sign)
        ELSE Ok(mins * sign * NS_IN_MIN)

\* the sign of the record is dropped
from_utf8_unsigned(source) ==
    LET record == parse_offset(source)
    IN  IF ~IsOk(record) THEN record
        ELSE from_ixdtf_record([record.val EXCEPT !.sign = 1])

\* timezone.rs:68
from_utf8(source) ==
    LET record == parse_offset(source)
    IN  IF ~IsOk(record) THEN record ELSE from_ixdtf_record(record.val)

\* timezone.rs:76
to_string(self) ==
    LET sign == IF self < 0 THEN -1 ELSE 1
        nanoseconds_total == Abs(self)
        nanosecond == nanoseconds_total % NS_IN_S
        seconds_left == nanoseconds_total \div NS_IN_S
        second == seconds_left % 60
        minutes_left == seconds_left \div 60
        minute == minutes_left % 60
        hour == IF minutes_left \div 60 <= U8_MAX THEN minutes_left \div 60 ELSE 0
        precision == IF nanosecond = 0 /\ second = 0 THEN "Minute" ELSE "Auto"
    IN  FormattableOffset_to_string(sign, hour, minute, second, nanosecond, precision)

----------------------------------------------------------------------------
(* Build profile: debug assertions and overflow checks are on in the dev   *)
(* profile and off in the release profile.                                 *)

VARIABLES profile, tz, origin, call, ret

vars == <<profile, tz, origin, call, ret>>

debug_assertions == profile = "dev"
overflow_checks == profile = "dev"

----------------------------------------------------------------------------
(* ISO date-times (crate::iso).  A date is its day number from the epoch   *)
(* (the calendar fields year, month, day are balanced into it); a time is  *)
(* hour, minute, second and the sub-second count.                          *)

IsoTime(h, m, sec, ns) == [hour |-> h, minute |-> m, second |-> sec, nanosecond |-> ns]
IsoTime_default == IsoTime(0, 0, 0, 0)
IsoDateTime_new_unchecked(date, time) == [date |-> date, time |-> time]

TimeNs(t) == t.hour * NS_IN_HOUR + t.minute * NS_IN_MIN + t.second * NS_IN_S + t.nanosecond
TimeOfNs(n) == IsoTime(n \div NS_IN_HOUR, (n % NS_IN_HOUR) \div NS_IN_MIN,
                       (n % NS_IN_MIN) \div NS_IN_S, n % NS_IN_S)

\* IsoDateTime::balance: the fields may over- and underflow; days carry
IsoDateTime_balance(date, hour, minute, second, nanosecond) ==
    LET total == hour * NS_IN_HOUR + minute * NS_IN_MIN + second * NS_IN_S + nanosecond
    IN  [date |-> date + total \div NS_PER_DAY, time |-> TimeOfNs(total % NS_PER_DAY)]

\* IsoDateTime::as_nanoseconds: the date-time read as UTC
as_nanoseconds(iso) == iso.date * NS_PER_DAY + TimeNs(iso.time)

\* IsoDateTime::from_epoch_nanos(instant, offset)
from_epoch_nanos(epoch_nanoseconds, offset) ==
    Ok(IsoDateTime_balance(0, 0, 0, 0, epoch_nanoseconds + offset))

\* IsoDate::is_valid_day_range (CheckISODaysRange)
is_valid_day_range(date) == Abs(date) <= MaxEpochDays

\* EpochNanoseconds::check_validity (IsValidEpochNanoseconds)
check_validity(ns) == Abs(ns) <= NS_MAX_INSTANT

\* the ISO date limit: one day beyond the instant limit on either side
IsoDateInLimits(date) == Abs(date) <= MaxEpochDays + 1

\* IsoTime::add(norm): (days carried, time)
IsoTime_add(time, norm) ==
    LET total == TimeNs(time) + norm
    IN  <<total \div NS_PER_DAY, TimeOfNs(total % NS_PER_DAY)>>

\* IsoDate::try_balance(year, month, day + days)
IsoDate_try_balance(date, days) ==
    IF IsoDateInLimits(date + days) THEN Ok(date + days) ELSE Err("DateOutOfRange")

\* IsoDateTime::add_date_duration with an empty date duration
add_date_duration(iso, norm) ==
    LET t_result == IsoTime_add(iso.time, norm)
        added == IsoDate_try_balance(iso.date, t_result[1])
    IN  IF ~IsOk(added) THEN added
        ELSE Ok(IsoDateTime_new_unchecked(added.val, t_result[2]))

----------------------------------------------------------------------------
(* The time-zone provider (crate::provider::TimeZoneProvider).  A scripted *)
(* provider answers the k-th query of each kind with the k-th answer of    *)
(* its script for that kind, whatever is asked: any answer a provider may  *)
(* give.  A zone provider answers for one zone with a single transition at *)
(* instant T (in seconds) from offset `before` to offset `after` (in       *)
(* seconds).                                                               *)

Ret(res, log) == [res |-> res, log |-> log]

Query(fn, id, arg) == [fn |-> fn, id |-> id, arg |-> arg]

NumAsked(log, fn) == Cardinality({i \in DOMAIN log : log[i].fn = fn})

ScriptAnswer(script, k) ==
    IF k <= Len(script) THEN script[k] ELSE Err("ProviderError")

ZoneT(p) == p.T * NS_IN_S
ZoneOffsetAt(p, instant) == IF instant < ZoneT(p) THEN p.before ELSE p.after

\* the instants whose local reading in the zone is the date-time, ascending
ZoneCandidates(p, iso) ==
    LET l == as_nanoseconds(iso)
        i1 == l - p.before * NS_IN_S
        i2 == l - p.after * NS_IN_S
        c1 == IF i1 < ZoneT(p) THEN <<i1>> ELSE <<>>
        c2 == IF i2 >= ZoneT(p) THEN <<i2>> ELSE <<>>
    IN  c1 \o c2

\* TimeZoneTransitionInfo: the offset in seconds, and the instant (in
\* seconds) at which the offset in effect began, if any
ZoneTransitionInfo(p, instant) ==
    [offset |-> ZoneOffsetAt(p, instant),
     transition_epoch |-> IF instant < ZoneT(p) THEN None ELSE Some(p.T)]

Answer(p, log, q) ==
    IF p.kind = "zone"
    THEN IF q.fn = "get_named_tz_epoch_nanoseconds" THEN Ok(ZoneCandidates(p, q.arg))
         ELSE IF q.fn = "get_named_tz_offset_nanoseconds" THEN Ok(ZoneTransitionInfo(p, q.arg))
         ELSE Ok(q.arg)
    ELSE IF q.fn = "get_named_tz_epoch_nanoseconds"
         THEN ScriptAnswer(p.cands, NumAsked(log, q.fn) + 1)
    ELSE IF q.fn = "get_named_tz_offset_nanoseconds"
         THEN ScriptAnswer(p.offsets, NumAsked(log, q.fn) + 1)
    ELSE ScriptAnswer(p.names, NumAsked(log, q.fn) + 1)

\* one query: the answer, and the log with the query appended
normalize_identifier(p, log, name) ==
    LET q == Query("normalize_identifier", name, name)
    IN  Ret(Answer(p, log, q), Append(log, q))

get_named_tz_offset_nanoseconds(p, log, identifier, utc_epoch) ==
    LET q == Query("get_named_tz_offset_nanoseconds", identifier, utc_epoch)
    IN  Ret(Answer(p, log, q), Append(log, q))

get_named_tz_epoch_nanoseconds(p, log, identifier, iso) ==
    LET q == Query("get_named_tz_epoch_nanoseconds", identifier, iso)
    IN  Ret(Answer(p, log, q), Append(log, q))

ScriptProvider(names, cands, offsets) ==
    [T |-> 0, before |-> 0, after |-> 0,
     kind |-> "script", cands |-> cands, offsets |-> offsets, names |-> names]

ZoneProvider(t, before, after) ==
    [T |-> t, before |-> before, after |-> after,
     kind |-> "zone", cands |-> <<>>, offsets |-> <<>>, names |-> <<>>]

----------------------------------------------------------------------------
(* TimeZone: IanaIdentifier(String) | UtcOffset(UtcOffset)                 *)

IanaIdentifier(name) == [tag |-> "IanaIdentifier", offset |-> 0, id |-> name]
UtcOffsetZone(offset) == [tag |-> "UtcOffset", offset |-> offset, id |-> <<>>]
NoZone == [tag |-> "None", offset |-> 0, id |-> <<>>]

\* the provider's seconds are returned as they are
get_offset_nanos_for_unscaled(self, utc_epoch, provider, log) ==
    IF self.tag = "UtcOffset" THEN Ret(Ok(nanoseconds(self.offset)), log)
    ELSE LET r == get_named_tz_offset_nanoseconds(provider, log, self.id, utc_epoch)
         IN  IF ~IsOk(r.res) THEN r
             ELSE Ret(Ok(r.res.val.offset), r.log)

\* timezone.rs:243
get_offset_nanos_for(self, utc_epoch, provider, log) ==
    IF self.tag = "UtcOffset" THEN Ret(Ok(nanoseconds(self.offset)), log)
    ELSE LET r == get_named_tz_offset_nanoseconds(provider, log, self.id, utc_epoch)
         IN  IF ~IsOk(r.res) THEN r
             ELSE Ret(Ok(r.res.val.offset * NS_IN_S), r.log)

\* timezone.rs:228 (the offset fits an i64 for every offset of the model)
get_iso_datetime_for(self, instant, provider, log) ==
    LET nanos == get_offset_nanos_for(self, instant, provider, log)
    IN  IF ~IsOk(nanos.res) THEN nanos
        ELSE Ret(from_epoch_nanos(instant, nanos.res.val), nanos.log)

\* only the first candidate is checked
check_candidates_first(possible_nanoseconds, log) ==
    IF possible_nanoseconds /= <<>> /\ ~check_validity(possible_nanoseconds[1])
    THEN Ret(Err("InstantOutOfRange"), log)
    ELSE Ret(Ok(possible_nanoseconds), log)

\* timezone.rs:333-339: every candidate is checked, then the list returned
check_candidates(possible_nanoseconds, log) ==
    IF \E i \in DOMAIN possible_nanoseconds : ~check_validity(possible_nanoseconds[i])
    THEN Ret(Err("InstantOutOfRange"), log)
    ELSE Ret(Ok(possible_nanoseconds), log)

\* timezone.rs:280-322: the fixed-offset branch
possible_for_offset(offset, iso, log) ==
    IF debug_assertions /\ is_sub_minute(offset)
    THEN Ret(Panic("Called get_possible_epoch_ns_for on a sub-minute-precision offset"), log)
    ELSE LET minute == iso.time.minute - minutes(offset)
         IN  IF ~InI16(minute) /\ overflow_checks
             THEN Ret(Panic("attempt to subtract with overflow"), log)
             ELSE LET balanced == IsoDateTime_balance(iso.date, iso.time.hour,
                                      WrapI16(minute), iso.time.second,
                                      iso.time.nanosecond)
                  IN  IF ~is_valid_day_range(balanced.date)
                      THEN Ret(Err("DateOutOfRange"), log)
                      ELSE check_candidates(<<as_nanoseconds(balanced)>>, log)

\* the provider is asked twice, the first answer dropped
possible_for_named_twice(identifier, iso, provider, log) ==
    IF ~is_valid_day_range(iso.date) THEN Ret(Err("DateOutOfRange"), log)
    ELSE LET first == get_named_tz_epoch_nanoseconds(provider, log, identifier, iso)
             r == get_named_tz_epoch_nanoseconds(provider, first.log, identifier, iso)
         IN  IF ~IsOk(r.res) THEN r ELSE check_candidates(r.res.val, r.log)

\* timezone.rs:324-331: the named branch
possible_for_named(identifier, iso, provider, log) ==
    IF ~is_valid_day_range(iso.date) THEN Ret(Err("DateOutOfRange"), log)
    ELSE LET r == get_named_tz_epoch_nanoseconds(provider, log, identifier, iso)
         IN  IF ~IsOk(r.res) THEN r ELSE check_candidates(r.res.val, r.log)

\* timezone.rs:272
get_possible_epoch_ns_for(self, iso, provider, log) ==
    IF self.tag = "UtcOffset" THEN possible_for_offset(self.offset, iso, log)
    ELSE possible_for_named(self.id, iso, provider, log)

\* Later answered like Earlier
disambiguate_fold_first(nanos, disambiguation) ==
    IF disambiguation \in {"Compatible", "Earlier", "Later"} THEN Ok(nanos[1])
    ELSE Err("Rejecting ambiguous time zones.")

\* timezone.rs:359-375: two or more candidates
disambiguate_fold(nanos, disambiguation) ==
    IF disambiguation \in {"Compatible", "Earlier"} THEN Ok(nanos[1])
    ELSE IF disambiguation = "Later" THEN Ok(nanos[Len(nanos)])
    ELSE Err("Rejecting ambiguous time zones.")

\* timezone.rs:430-452 and 455-473: shift the local time by the duration,
\* resolve it again, take the first (Earlier) or the last candidate
disambiguate_shifted(self, iso, time_duration, take_first, provider, log) ==
    LET shifted_time == IsoTime_add(iso.time, time_duration)
        shifted_date == IsoDate_try_balance(iso.date, shifted_time[1])
    IN  IF ~IsOk(shifted_date) THEN Ret(shifted_date, log)
        ELSE LET shifted == IsoDateTime_new_unchecked(shifted_date.val, shifted_time[2])
                 possible == get_possible_epoch_ns_for(self, shifted, provider, log)
             IN  IF ~IsOk(possible.res) THEN possible
                 ELSE IF Len(possible.res.val) = 0
                      THEN Ret(Panic("index out of bounds"), possible.log)
                 ELSE IF take_first THEN Ret(Ok(possible.res.val[1]), possible.log)
                 ELSE Ret(Ok(possible.res.val[Len(possible.res.val)]), possible.log)

\* the transition taken with the wrong sign
transition_nanoseconds_swapped(offset_before, offset_after) == offset_before - offset_after

\* timezone.rs:427: the transition, offsetAfter - offsetBefore
transition_nanoseconds(offset_before, offset_after) == offset_after - offset_before

\* timezone.rs:383-474: no candidate, and the policy is not Reject
disambiguate_gap(self, iso, disambiguation, provider, log) ==
    LET before == add_date_duration(iso, -3 * NS_IN_HOUR)
        after == add_date_duration(iso, 3 * NS_IN_HOUR)
    IN  IF ~IsOk(before) THEN Ret(before, log)
        ELSE IF ~IsOk(after) THEN Ret(after, log)
        ELSE
    LET before_possible == get_possible_epoch_ns_for(self, before.val, provider, log)
    IN  IF ~IsOk(before_possible.res) THEN before_possible
        ELSE IF debug_assertions /\ Len(before_possible.res.val) /= 1
             THEN Ret(Panic("assertion failed: before_possible.len() == 1"),
                      before_possible.log)
        ELSE
    LET after_possible == get_possible_epoch_ns_for(self, after.val, provider,
                                                    before_possible.log)
    IN  IF ~IsOk(after_possible.res) THEN after_possible
        ELSE IF debug_assertions /\ Len(after_possible.res.val) /= 1
             THEN Ret(Panic("assertion failed: after_possible.len() == 1"),
                      after_possible.log)
        ELSE IF Len(before_possible.res.val) = 0
             THEN Ret(Panic("index out of bounds"), after_possible.log)
        ELSE
    LET offset_before == get_offset_nanos_for(self, before_possible.res.val[1],
                                              provider, after_possible.log)
    IN  IF ~IsOk(offset_before.res) THEN offset_before
        ELSE IF Len(after_possible.res.val) = 0
             THEN Ret(Panic("index out of bounds"), offset_before.log)
        ELSE
    LET offset_after == get_offset_nanos_for(self, after_possible.res.val[1],
                                             provider, offset_before.log)
    IN  IF ~IsOk(offset_after.res) THEN offset_after
        ELSE
    LET ns == transition_nanoseconds(offset_before.res.val, offset_after.res.val)
    IN  IF disambiguation = "Earlier"
        THEN disambiguate_shifted(self, iso, -ns, TRUE, provider, offset_after.log)
        ELSE disambiguate_shifted(self, iso, ns, FALSE, provider, offset_after.log)

\* timezone.rs:345
disambiguate_possible_epoch_nanos(self, nanos, iso, disambiguation, provider, log) ==
    LET n == Len(nanos)
    IN  IF n = 1 THEN Ret(Ok(nanos[1]), log)
        ELSE IF n /= 0 THEN Ret(disambiguate_fold(nanos, disambiguation), log)
        ELSE IF disambiguation = "Reject"
             THEN Ret(Err("Rejecting ambiguous time zones."), log)
        ELSE disambiguate_gap(self, iso, disambiguation, provider, log)

\* timezone.rs:259
get_epoch_nanoseconds_for(self, iso, disambiguation, provider, log) ==
    LET possible_nanos == get_possible_epoch_ns_for(self, iso, provider, log)
    IN  IF ~IsOk(possible_nanos.res) THEN possible_nanos
        ELSE disambiguate_possible_epoch_nanos(self, possible_nanos.res.val, iso,
                                               disambiguation, provider,
                                               possible_nanos.log)

\* the instant of the probe is returned in place of the transition
start_of_day_after_gap_probe(self, iso_date, provider, log) ==
    LET after == IsoDateTime_new_unchecked(iso_date, IsoTime(3, 0, 0, 0))
        after_possible == get_possible_epoch_ns_for(self, after, provider, log)
    IN  IF ~IsOk(after_possible.res) THEN after_possible
        ELSE IF Len(after_possible.res.val) = 0
             THEN Ret(Err("Could not determine the start of day for the provided date."),
                      after_possible.log)
        ELSE Ret(Ok(after_possible.res.val[1]), after_possible.log)

\* timezone.rs:506-536: midnight is skipped
start_of_day_after_gap(self, iso_date, provider, log) ==
    LET after == IsoDateTime_new_unchecked(iso_date, IsoTime(3, 0, 0, 0))
        after_possible == get_possible_epoch_ns_for(self, after, provider, log)
    IN  IF ~IsOk(after_possible.res) THEN after_possible
        ELSE IF Len(after_possible.res.val) = 0
             THEN Ret(Err("Could not determine the start of day for the provided date."),
                      after_possible.log)
        ELSE
    LET info == get_named_tz_offset_nanoseconds(provider, after_possible.log, self.id,
                                                after_possible.res.val[1])
    IN  IF ~IsOk(info.res) THEN info
        ELSE IF ~IsSome(info.res.val.transition_epoch)
             THEN Ret(Err("Could not determine the start of day for the provided date."),
                      info.log)
        ELSE Ret(Ok(Unwrap(info.res.val.transition_epoch) * NS_IN_S), info.log)

\* timezone.rs:476
get_start_of_day(self, iso_date, provider, log) ==
    LET iso == IsoDateTime_new_unchecked(iso_date, IsoTime_default)
        possible_nanos == get_possible_epoch_ns_for(self, iso, provider, log)
    IN  IF ~IsOk(possible_nanos.res) THEN possible_nanos
        ELSE IF Len(possible_nanos.res.val) /= 0
             THEN Ret(Ok(possible_nanos.res.val[1]), possible_nanos.log)
        ELSE IF self.tag /= "IanaIdentifier"
             THEN IF debug_assertions
                  THEN Ret(Panic("4. Assert: IsOffsetTimeZoneIdentifier(timeZone) is false."),
                           possible_nanos.log)
                  ELSE Ret(Err("Timezone was not an Iana identifier."), possible_nanos.log)
        ELSE start_of_day_after_gap(self, iso_date, provider, possible_nanos.log)

----------------------------------------------------------------------------
(* Construction.  TimeZoneRecord: Name(name) | Offset(MinutePrecisionOffset)*)
(* | another shape (the enum is non-exhaustive).                           *)

NameRecord(name) == [sign |-> 1, hour |-> 0, minute |-> 0, kind |-> "Name", name |-> name]
OffsetRecord(sign, hour, minute) ==
    [sign |-> sign, hour |-> hour, minute |-> minute, kind |-> "Offset", name |-> <<>>]
OtherRecord == [sign |-> 1, hour |-> 0, minute |-> 0, kind |-> "Other", name |-> <<>>]

NameChars == {"U", "T", "C", "u", "t", "c", "/", "_"}
IsName(s) == Len(s) > 0 /\ \A i \in DOMAIN s : s[i] \in NameChars

\* crate::parsers::parse_identifier: a name, or an offset of minute
\* precision written SIGN HH or SIGN HH : MM
parse_identifier(s) ==
    IF IsName(s) THEN Ok(NameRecord(s))
    ELSE IF Len(s) = 3 /\ SignOf(s[1]) /= 0 /\ TwoDigits(s, 2) \in 0..23
         THEN Ok(OffsetRecord(SignOf(s[1]), TwoDigits(s, 2), 0))
    ELSE IF Len(s) = 6 /\ IsOk(parse_offset(s))
         THEN Ok(OffsetRecord(SignOf(s[1]), TwoDigits(s, 2), TwoDigits(s, 5)))
    ELSE Err("ParseError")

\* timezone.rs:148
from_time_zone_record(record, provider, log) ==
    IF record.kind = "Name"
    THEN LET r == normalize_identifier(provider, log, record.name)
         IN  IF ~IsOk(r.res) THEN r ELSE Ret(Ok(IanaIdentifier(r.res.val)), r.log)
    ELSE IF record.kind = "Offset"
         THEN Ret(Ok(UtcOffsetZone(from_ixdtf_minute_record(record))), log)
    ELSE Ret(Err("assert"), log)

\* timezone.rs:168
try_from_identifier_str_with_provider(identifier, provider, log) ==
    LET tz_record == parse_identifier(identifier)
    IN  IF ~IsOk(tz_record) THEN Ret(tz_record, log)
        ELSE IF tz_record.val.kind = "Name"
             THEN LET r == normalize_identifier(provider, log, tz_record.val.name)
                  IN  IF ~IsOk(r.res) THEN r
                      ELSE Ret(Ok(IanaIdentifier(r.res.val)), r.log)
        ELSE IF tz_record.val.kind = "Offset"
             THEN Ret(Ok(UtcOffsetZone(from_ixdtf_minute_record(tz_record.val))), log)
        ELSE Ret(Err("Invalid TimeZone Identifier"), log)

\* a date-time text: a date and time of day, then an optional offset (Z or
\* a numeric offset), then an optional annotation in brackets
DateTimeLen == 16
IsDateTimeText(s) ==
    /\ Len(s) >= DateTimeLen
    /\ s[5] = "-" /\ s[8] = "-" /\ s[11] = "T" /\ s[14] = ":"
    /\ \A i \in {1, 2, 3, 4, 6, 7, 9, 10, 12, 13, 15, 16} : IsDigit(s[i])

BracketAt(s) == IF \E i \in DOMAIN s : s[i] = "["
                THEN CHOOSE i \in DOMAIN s : s[i] = "[" /\ \A j \in 1..(i - 1) : s[j] /= "["
                ELSE 0

\* crate::parsers::parse_allowed_timezone_formats: the zone of a date-time
\* text, by its annotation if it has one, else by its offset; none if the
\* text has neither, does not parse, or its zone cannot be built
parse_allowed_timezone_formats(src, provider, log) ==
    IF ~IsDateTimeText(src) THEN Ret(None, log)
    ELSE
    LET b == BracketAt(src)
        offset_text == SubSeq(src, DateTimeLen + 1, IF b = 0 THEN Len(src) ELSE b - 1)
        annotation == IF b = 0 THEN <<>> ELSE SubSeq(src, b + 1, Len(src) - 1)
        offset_ok == offset_text = <<>> \/ offset_text = <<"Z">> \/ IsOk(parse_offset(offset_text))
    IN  IF ~offset_ok \/ (b /= 0 /\ src[Len(src)] /= "]") THEN Ret(None, log)
        ELSE IF b /= 0
             THEN IF ~IsOk(parse_identifier(annotation)) THEN Ret(None, log)
                  ELSE LET r == from_time_zone_record(parse_identifier(annotation).val,
                                                      provider, log)
                       IN  IF IsOk(r.res) THEN Ret(Some(r.res.val), r.log)
                           ELSE Ret(None, r.log)
        ELSE IF offset_text = <<"Z">> THEN Ret(Some(IanaIdentifier(<<"U", "T", "C">>)), log)
        ELSE IF offset_text = <<>> THEN Ret(None, log)
        ELSE LET rec == parse_offset(offset_text).val
             IN  IF IsSome(rec.second) THEN Ret(None, log)
                 ELSE Ret(Some(UtcOffsetZone(from_ixdtf_minute_record(rec))), log)

\* timezone.rs:190
try_from_str_with_provider(src, provider, log) ==
    LET first == try_from_identifier_str_with_provider(src, provider, log)
    IN  IF IsOk(first.res) THEN first
        ELSE LET second == parse_allowed_timezone_formats(src, provider, first.log)
             IN  IF IsSome(second.res) THEN Ret(Ok(Unwrap(second.res)), second.log)
                 ELSE Ret(Err("Not a valid time zone string"), second.log)

\* timezone.rs:207
identifier(self) ==
    IF self.tag = "IanaIdentifier" THEN self.id ELSE to_string(self.offset)

\* time_zone.rs:14 (C API); the text is valid UTF-8
ffi_try_from_identifier_str(ident, provider, log) ==
    try_from_identifier_str_with_provider(ident, provider, log)

\* time_zone.rs:22 (C API)
ffi_try_from_offset_str(ident) ==
    LET x == from_utf8(ident)
    IN  IF ~IsOk(x) THEN x ELSE Ok(UtcOffsetZone(x.val))

\* time_zone.rs:27 (C API)
ffi_try_from_str(ident, provider, log) ==
    try_from_str_with_provider(ident, provider, log)

----------------------------------------------------------------------------
(* Inputs.                                                                 *)

Profiles == {"dev", "release"}
Policies == {"Compatible", "Earlier", "Later", "Reject"}

UTC == <<"U", "T", "C">>
NameTexts == {UTC, <<"u", "t", "c">>}

OffsetText(signChar, h, m) == <<signChar>> \o Pad2(h) \o <<":">> \o Pad2(m)
OffsetIdTexts == {OffsetText(c, h, m) : c \in {"+", "-"}, h \in {0, 9, 23}, m \in {0, 30}}
ShortOffsetTexts == {<<"+", "0", "9">>, <<"-", "2", "4">>}
SubMinuteTexts == {OffsetText("+", 0, 0) \o <<":", "3", "0">>,
                   OffsetText("-", 9, 30) \o <<":", "1", "5", ".", "5">>,
                   OffsetText("+", 1, 0) \o <<":", "0", "0">>}
TooLongFraction == OffsetText("+", 1, 0)
                   \o <<":", "0", "0", ".", "0", "0", "0", "0", "0", "0", "0", "0", "0", "1">>
BadTexts == {<<>>, <<"+", "9", ":", "3", "0">>, OffsetText("+", 24, 0)}

DateTimeText == <<"1", "9", "7", "0", "-", "0", "1", "-", "0", "1", "T", "0", "0", ":", "0", "0">>
DateTimeTexts ==
    {DateTimeText \o o :
        o \in {<<>>, <<"Z">>, OffsetText("+", 9, 30), OffsetText("+", 0, 0) \o <<":", "3", "0">>}}
    \cup {DateTimeText \o OffsetText("+", 9, 30) \o <<"[">> \o UTC \o <<"]">>,
          DateTimeText \o <<"[">> \o OffsetText("-", 1, 0) \o <<"]">>}

IdentifierTexts == NameTexts \cup OffsetIdTexts \cup ShortOffsetTexts \cup SubMinuteTexts \cup BadTexts
ZoneTexts == IdentifierTexts \cup DateTimeTexts
OffsetTexts == OffsetIdTexts \cup SubMinuteTexts \cup BadTexts \cup {TooLongFraction}

Records == {NameRecord(n) : n \in NameTexts}
           \cup {OffsetRecord(sg, h, m) : sg \in {1, -1}, h \in {0, 9, 23}, m \in {0, 59}}
           \cup {OtherRecord}

\* minutes for UtcOffset::from_minutes, an i16: every offset up to a little
\* over a day either side of zero, and the far ones
MinuteSpan == 1445
MinuteInputs == {I16_MIN, -1441, -570, -1, 0, 1, 570, 1439, 1440, 15360, I16_MAX}

\* values a UtcOffset may hold (an i64): whole minutes, values between two
\* minutes, and values whose minutes are at and past the ends of i16
StoredValues ==
    {from_minutes(m) : m \in MinuteInputs}
    \cup {s * v : s \in {1, -1},
                  v \in {1, 30 * NS_IN_S, NS_IN_MIN - 1, NS_IN_MIN + 1, 90 * NS_IN_S + 5,
                         I16_MAX * NS_IN_MIN + 1, (I16_MAX + 1) * NS_IN_MIN - 1,
                         (I16_MAX + 1) * NS_IN_MIN, (I16_MAX + 1) * NS_IN_MIN + 1,
                         (I16_MAX + 2) * NS_IN_MIN, 100000 * NS_IN_MIN + 7}}

\* answers of normalize_identifier
NameAnswers == {Err("ProviderError"), Ok(UTC)}
NameProviders == {ScriptProvider(<<a>>, <<>>, <<>>) : a \in NameAnswers}
NoProvider == ScriptProvider(<<>>, <<>>, <<>>)

----------------------------------------------------------------------------
(* Inputs of the resolution calls.                                         *)

\* instants
Instants == {-NS_MAX_INSTANT, -NS_PER_DAY - 1, -1, 0, 7, 5 * NS_IN_HOUR + 30 * NS_IN_MIN,
             NS_PER_DAY + 12 * NS_IN_HOUR + 59 * NS_IN_MIN + 59 * NS_IN_S + 9,
             NS_MAX_INSTANT}

\* local date-times
Dates == {-MaxEpochDays - 1, -MaxEpochDays, -1, 0, 1, MaxEpochDays, MaxEpochDays + 1}
Times == {IsoTime_default, IsoTime(0, 30, 0, 0), IsoTime(2, 30, 0, 0),
          IsoTime(12, 59, 30, 5), IsoTime(23, 59, 59, 9)}
IsoInputs == {IsoDateTime_new_unchecked(d, t) : d \in Dates, t \in Times}

MidIso == IsoDateTime_new_unchecked(0, IsoTime(2, 30, 0, 0))
EdgeIso == IsoDateTime_new_unchecked(MaxEpochDays + 1, IsoTime(23, 0, 0, 0))

\* candidate lists handed to the disambiguation
I1 == 2 * NS_IN_HOUR
I2 == 3 * NS_IN_HOUR
NanosInputs == {<<>>, <<I1>>, <<I2>>, <<I1, I2>>}

\* answers of the candidate-instants query and of the offset query
CandAnswers == {Err("ProviderError"), Ok(<<>>), Ok(<<I1>>), Ok(<<I1, I2>>),
                Ok(<<I1, NS_MAX_INSTANT + 1>>)}
Info(offset, transition_epoch) == [offset |-> offset, transition_epoch |-> transition_epoch]
OffsetAnswers == {Err("ProviderError"), Ok(Info(0, None)), Ok(Info(3600, Some(7200)))}
InfoAnswers == OffsetAnswers \cup {Ok(Info(3600, Some((MaxEpochDays + 1) * 86400)))}

ProbeAnswers == {Err("ProviderError"), Ok(<<>>), Ok(<<I1>>), Ok(<<I1, I2>>)}
DisambiguationProviders ==
    {ScriptProvider(<<>>, <<c1, c2, c3>>, <<o1, o2>>) :
        c1 \in ProbeAnswers, c2 \in ProbeAnswers, c3 \in CandAnswers,
        o1 \in OffsetAnswers, o2 \in OffsetAnswers}
StartOfDayProviders ==
    {ScriptProvider(<<>>, <<c1, c2>>, <<o1>>) :
        c1 \in CandAnswers, c2 \in CandAnswers, o1 \in InfoAnswers}
QueryProviders ==
    {ScriptProvider(<<>>, <<c1>>, <<o1>>) : c1 \in CandAnswers, o1 \in OffsetAnswers}
AnsweringProvider == ScriptProvider(<<Ok(UTC)>>, <<Ok(<<I1>>), Ok(<<I1>>), Ok(<<I1>>)>>,
                                    <<Ok(Info(0, None)), Ok(Info(0, None))>>)

\* zones with one transition: at T seconds, from `before` to `after` seconds
Zones == {ZoneProvider(0, 0, 3600), ZoneProvider(0, -1800, 1800),
          ZoneProvider(0, -1800, 0), ZoneProvider(25200, -18000, -14400),
          ZoneProvider(0, 0, 10800), ZoneProvider(0, 0, 14400),
          ZoneProvider(0, 3600, 0), ZoneProvider(3600, 0, 0)}

\* local times around the transitions of the zones, every half hour, and
\* one with seconds and a fraction
ZoneLocalTimes ==
    {IsoDateTime_balance(0, 0, 30 * k, 0, 0) : k \in -8..10}
    \cup {IsoDateTime_new_unchecked(0, IsoTime(0, 15, 30, 5))}

----------------------------------------------------------------------------
(* The state: the build profile, the TimeZone value held (with the entry   *)
(* point that built it and, for an identifier entry point, the text it was *)
(* built from), the last call and what it returned, with the provider      *)
(* queries it made.  Every value is immutable and every operation is a     *)
(* function of its arguments, so a behaviour is one construction, one call *)
(* on the zone built and, for a round trip, the call that takes its result.*)

BlankCall == [record |-> OtherRecord,
              iso |-> IsoDateTime_new_unchecked(0, IsoTime_default),
              offset |-> 0, instant |-> 0, provider |-> NoProvider, nanos |-> <<>>,
              disambiguation |-> "Compatible", op |-> "none", text |-> <<>>,
              chained |-> FALSE]

Origin(entry, text) == [text |-> text, entry |-> entry]

ConstructorOps == {"from_time_zone_record", "try_from_identifier_str", "try_from_str",
                   "ffi_try_from_identifier_str", "ffi_try_from_offset_str",
                   "ffi_try_from_str", "from_minutes"}

Init ==
    /\ profile \in Profiles
    /\ tz = NoZone
    /\ origin = Origin("none", <<>>)
    /\ call = BlankCall
    /\ ret = Ret(Err("none"), <<>>)

\* a constructor returned r: the zone is held if it succeeded
Constructed(entry, text, c, r) ==
    /\ call.op = "none"
    /\ call' = c
    /\ ret' = r
    /\ IF IsOk(r.res)
       THEN tz' = r.res.val /\ origin' = Origin(entry, text)
       ELSE UNCHANGED <<tz, origin>>
    /\ UNCHANGED profile

FromTimeZoneRecord ==
    \E record \in Records, p \in NameProviders :
        Constructed("from_time_zone_record", <<>>,
                    [BlankCall EXCEPT !.op = "from_time_zone_record", !.record = record,
                                      !.provider = p],
                    from_time_zone_record(record, p, <<>>))

TryFromIdentifierStr ==
    \E src \in IdentifierTexts, p \in NameProviders :
        Constructed("try_from_identifier_str", src,
                    [BlankCall EXCEPT !.op = "try_from_identifier_str", !.text = src,
                                      !.provider = p],
                    try_from_identifier_str_with_provider(src, p, <<>>))

TryFromStr ==
    \E src \in ZoneTexts, p \in NameProviders :
        Constructed("try_from_str", <<>>,
                    [BlankCall EXCEPT !.op = "try_from_str", !.text = src, !.provider = p],
                    try_from_str_with_provider(src, p, <<>>))

FfiTryFromIdentifierStr ==
    \E src \in IdentifierTexts, p \in NameProviders :
        Constructed("ffi_try_from_identifier_str", src,
                    [BlankCall EXCEPT !.op = "ffi_try_from_identifier_str", !.text = src,
                                      !.provider = p],
                    ffi_try_from_identifier_str(src, p, <<>>))

FfiTryFromOffsetStr ==
    \E src \in OffsetTexts :
        Constructed("ffi_try_from_offset_str", <<>>,
                    [BlankCall EXCEPT !.op = "ffi_try_from_offset_str", !.text = src],
                    Ret(ffi_try_from_offset_str(src), <<>>))

FfiTryFromStr ==
    \E src \in ZoneTexts, p \in NameProviders :
        Constructed("ffi_try_from_str", <<>>,
                    [BlankCall EXCEPT !.op = "ffi_try_from_str", !.text = src, !.provider = p],
                    ffi_try_from_str(src, p, <<>>))

\* TimeZone::UtcOffset(UtcOffset::from_minutes(m)): the variant is public
VariantFromMinutes ==
    \E m \in MinuteInputs :
        Constructed("from_minutes", <<>>,
                    [BlankCall EXCEPT !.op = "from_minutes", !.offset = m],
                    Ret(Ok(UtcOffsetZone(from_minutes(m))), <<>>))

\* a method of the zone just built was called
Called(c, r) ==
    /\ call.op \in ConstructorOps
    /\ IsOk(ret.res)
    /\ call' = c
    /\ ret' = r
    /\ UNCHANGED <<profile, tz, origin>>

Named == tz.tag = "IanaIdentifier"

Identifier ==
    Called([BlankCall EXCEPT !.op = "identifier"], Ret(Ok(identifier(tz)), <<>>))

GetOffsetNanosFor ==
    \E instant \in Instants, p \in QueryProviders \cup Zones :
        Called([BlankCall EXCEPT !.op = "get_offset_nanos_for", !.instant = instant,
                                 !.provider = p],
               get_offset_nanos_for(tz, instant, p, <<>>))

GetIsoDatetimeFor ==
    \E instant \in Instants, p \in {AnsweringProvider, NoProvider} :
        Called([BlankCall EXCEPT !.op = "get_iso_datetime_for", !.instant = instant,
                                 !.provider = p],
               get_iso_datetime_for(tz, instant, p, <<>>))

GetPossibleEpochNsFor ==
    \E iso \in IsoInputs, p \in (IF Named THEN QueryProviders ELSE {AnsweringProvider}) :
        Called([BlankCall EXCEPT !.op = "get_possible_epoch_ns_for", !.iso = iso,
                                 !.provider = p],
               get_possible_epoch_ns_for(tz, iso, p, <<>>))

\* UtcOffset::to_string, and UtcOffset::from_utf8 of a text and of the text
\* to_string wrote
OffsetToString ==
    /\ call.op = "none"
    /\ \E m \in MinuteInputs \cup (-MinuteSpan..MinuteSpan) :
           /\ call' = [BlankCall EXCEPT !.op = "to_string", !.offset = from_minutes(m)]
           /\ ret' = Ret(Ok(to_string(from_minutes(m))), <<>>)
    /\ UNCHANGED <<profile, tz, origin>>

FromUtf8 ==
    /\ call.op = "none"
    /\ \E src \in OffsetTexts :
           /\ call' = [BlankCall EXCEPT !.op = "from_utf8", !.text = src]
           /\ ret' = Ret(from_utf8(src), <<>>)
    /\ UNCHANGED <<profile, tz, origin>>

FromUtf8OfFormatted ==
    /\ call.op = "to_string"
    /\ call' = [call EXCEPT !.op = "from_utf8", !.text = ret.res.val, !.chained = TRUE]
    /\ ret' = Ret(from_utf8(ret.res.val), <<>>)
    /\ UNCHANGED <<profile, tz, origin>>

\* the local date-time of an instant, handed back to the zone
GetPossibleOfLocal ==
    /\ call.op = "get_iso_datetime_for"
    /\ IsOk(ret.res)
    /\ call' = [call EXCEPT !.op = "get_possible_epoch_ns_for", !.iso = ret.res.val,
                            !.chained = TRUE]
    /\ ret' = get_possible_epoch_ns_for(tz, ret.res.val, call.provider, <<>>)
    /\ UNCHANGED <<profile, tz, origin>>

DisambiguatePossibleEpochNanos ==
    \E nanos \in NanosInputs, iso \in {MidIso, EdgeIso}, d \in Policies :
        \E p \in (IF Named /\ nanos = <<>> /\ d /= "Reject" /\ iso = MidIso
                  THEN DisambiguationProviders ELSE {AnsweringProvider}) :
            Called([BlankCall EXCEPT !.op = "disambiguate_possible_epoch_nanos",
                                     !.nanos = nanos, !.iso = iso,
                                     !.disambiguation = d, !.provider = p],
                   disambiguate_possible_epoch_nanos(tz, nanos, iso, d, p, <<>>))

GetEpochNanosecondsFor ==
    \E iso \in ZoneLocalTimes, d \in Policies, p \in (IF Named THEN Zones ELSE {NoProvider}) :
        Called([BlankCall EXCEPT !.op = "get_epoch_nanoseconds_for", !.iso = iso,
                                 !.disambiguation = d, !.provider = p],
               get_epoch_nanoseconds_for(tz, iso, d, p, <<>>))

GetStartOfDay ==
    \E date \in Dates :
        \E p \in (IF Named THEN Zones \cup (IF date = 0 THEN StartOfDayProviders ELSE {})
                  ELSE {AnsweringProvider}) :
            Called([BlankCall EXCEPT !.op = "get_start_of_day",
                                     !.iso = IsoDateTime_new_unchecked(date, IsoTime_default),
                                     !.provider = p],
                   get_start_of_day(tz, date, p, <<>>))

\* UtcOffset::from_minutes of an i16, and the three readings of a UtcOffset:
\* of a value it holds, and of the value from_minutes built (the call then
\* keeps the minutes it was built from)
FromMinutes ==
    /\ call.op = "none"
    /\ \E m \in MinuteInputs \cup (-MinuteSpan..MinuteSpan) :
           /\ call' = [BlankCall EXCEPT !.op = "UtcOffset_from_minutes", !.offset = m]
           /\ ret' = Ret(Ok(from_minutes(m)), <<>>)
    /\ UNCHANGED <<profile, tz, origin>>

Read(op, v) ==
    /\ call.op = "none"
    /\ call' = [BlankCall EXCEPT !.op = op, !.offset = v]
    /\ UNCHANGED <<profile, tz, origin>>

ReadBuilt(op) ==
    /\ call.op = "UtcOffset_from_minutes"
    /\ call' = [call EXCEPT !.op = op, !.chained = TRUE]
    /\ UNCHANGED <<profile, tz, origin>>

Minutes ==
    \E v \in StoredValues : Read("minutes", v) /\ ret' = Ret(Ok(minutes(v)), <<>>)

Nanoseconds ==
    \E v \in StoredValues : Read("nanoseconds", v) /\ ret' = Ret(Ok(nanoseconds(v)), <<>>)

IsSubMinute ==
    \E v \in StoredValues : Read("is_sub_minute", v) /\ ret' = Ret(Ok(is_sub_minute(v)), <<>>)

MinutesOfFromMinutes ==
    ReadBuilt("minutes") /\ ret' = Ret(Ok(minutes(ret.res.val)), <<>>)

NanosecondsOfFromMinutes ==
    ReadBuilt("nanoseconds") /\ ret' = Ret(Ok(nanoseconds(ret.res.val)), <<>>)

IsSubMinuteOfFromMinutes ==
    ReadBuilt("is_sub_minute") /\ ret' = Ret(Ok(is_sub_minute(ret.res.val)), <<>>)

Next ==
    \/ FromTimeZoneRecord
    \/ TryFromIdentifierStr
    \/ TryFromStr
    \/ FfiTryFromIdentifierStr
    \/ FfiTryFromOffsetStr
    \/ FfiTryFromStr
    \/ VariantFromMinutes
    \/ Identifier
    \/ GetOffsetNanosFor
    \/ GetIsoDatetimeFor
    \/ GetPossibleEpochNsFor
    \/ GetPossibleOfLocal
    \/ DisambiguatePossibleEpochNanos
    \/ GetEpochNanosecondsFor
    \/ GetStartOfDay
    \/ OffsetToString
    \/ FromUtf8
    \/ FromUtf8OfFormatted
    \/ FromMinutes
    \/ Minutes
    \/ Nanoseconds
    \/ IsSubMinute
    \/ MinutesOfFromMinutes
    \/ NanosecondsOfFromMinutes
    \/ IsSubMinuteOfFromMinutes

Spec == Init /\ [][Next]_vars

----------------------------------------------------------------------------
(* Properties.                                                             *)

Failed(r) == r.res.tag /= "Ok"
Returned(v) == ret.res.tag = "Ok" /\ ret.res.val = v
Scripted == call.provider.kind = "script"

\* the answer the provider gave to the i-th query of the call
AnswerAt(i) == Answer(call.provider, SubSeq(ret.log, 1, i - 1), ret.log[i])

Disambiguated == call.op = "disambiguate_possible_epoch_nanos"

\* C1: the decision table of the disambiguation.  With one candidate the
\* call returns it under every policy; with two it returns the first under
\* Compatible and Earlier, the second under Later, and fails under Reject;
\* with none it fails under Reject.  In each of these cases the provider is
\* not queried.
C1_DecisionTable ==
    Disambiguated =>
        /\ Len(call.nanos) = 1 => Returned(call.nanos[1]) /\ ret.log = <<>>
        /\ Len(call.nanos) = 2 /\ call.disambiguation \in {"Compatible", "Earlier"}
               => Returned(call.nanos[1]) /\ ret.log = <<>>
        /\ Len(call.nanos) = 2 /\ call.disambiguation = "Later"
               => Returned(call.nanos[2]) /\ ret.log = <<>>
        /\ Len(call.nanos) \in {0, 2} /\ call.disambiguation = "Reject"
               => ret.res.tag = "Err" /\ ret.log = <<>>

C1_Witness ==
    /\ Disambiguated
    /\ call.nanos = <<I1, I2>>
    /\ call.disambiguation = "Later"
    /\ Returned(I2)

\* a forward transition of at most three hours, and a local time it skips
ForwardZone(p) == p.kind = "zone" /\ p.after > p.before /\ p.after - p.before <= 3 * 3600
GapStart(p) == ZoneT(p) + p.before * NS_IN_S
GapEnd(p) == ZoneT(p) + p.after * NS_IN_S
InGap(p, iso) == as_nanoseconds(iso) >= GapStart(p) /\ as_nanoseconds(iso) < GapEnd(p)
ZoneDelta(p) == (p.after - p.before) * NS_IN_S
\* the local reading of an instant in the zone
ZoneLocal(p, instant) == instant + ZoneOffsetAt(p, instant) * NS_IN_S

GapResolved ==
    /\ call.op = "get_epoch_nanoseconds_for"
    /\ Named
    /\ ForwardZone(call.provider)
    /\ InGap(call.provider, call.iso)
    /\ call.disambiguation /= "Reject"

\* C2: in a zone with one forward transition of at most three hours, a
\* local time t inside the gap has no candidate and resolves under every
\* policy but Reject: under Earlier to the instant of the local time t - d,
\* which is before the transition; under Compatible and Later to the
\* instant of the local time t + d, which is at or after the transition;
\* the local reading of the instant returned is outside the gap.
C2_GapResolution ==
    GapResolved =>
        LET p == call.provider
            t == as_nanoseconds(call.iso)
        IN  /\ AnswerAt(1) = Ok(<<>>)
            /\ ret.res.tag = "Ok"
            /\ call.disambiguation = "Earlier" =>
                   /\ ret.res.val = t - ZoneDelta(p) - p.before * NS_IN_S
                   /\ ret.res.val < ZoneT(p)
            /\ call.disambiguation \in {"Compatible", "Later"} =>
                   /\ ret.res.val = t + ZoneDelta(p) - p.after * NS_IN_S
                   /\ ret.res.val >= ZoneT(p)
            /\ ZoneLocal(p, ret.res.val) < GapStart(p)
                   \/ ZoneLocal(p, ret.res.val) >= GapEnd(p)

C2_Witness ==
    /\ GapResolved
    /\ call.disambiguation = "Earlier"
    /\ call.provider = ZoneProvider(25200, -18000, -14400)
    /\ call.iso = IsoDateTime_new_unchecked(0, IsoTime(2, 30, 0, 0))
    /\ Returned(7 * NS_IN_HOUR - 30 * NS_IN_MIN)

GapProbed ==
    /\ Disambiguated
    /\ Named
    /\ Scripted
    /\ call.nanos = <<>>
    /\ call.disambiguation /= "Reject"
    /\ call.iso = MidIso

\* the k-th answer of the candidate-instants script has a number of
\* candidates other than one
NotOne(k) == LET a == call.provider.cands[k] IN a.tag = "Ok" /\ Len(a.val) /= 1

\* C3: in the gap resolution, if the probe three hours before or the probe
\* three hours after has a number of candidates other than one, or the
\* shifted local time has none, the call fails and returns no instant.
C3_ProbeInvariantEnforced ==
    GapProbed =>
        /\ NotOne(1) => Failed(ret)
        /\ NotOne(2) => Failed(ret)
        /\ call.provider.cands[3] = Ok(<<>>) => Failed(ret)

InBound(ns) == ns >= -NS_MAX_INSTANT /\ ns <= NS_MAX_INSTANT

PossibleFor == call.op = "get_possible_epoch_ns_for"

\* C4: for a fixed-offset zone and a representable instant i, the local
\* date-time of i in the zone has exactly the candidate list <<i>>.
C4_FixedOffsetBijection ==
    PossibleFor /\ call.chained /\ tz.tag = "UtcOffset" /\ InBound(call.instant)
        => ret.res = Ok(<<call.instant>>)

EntryPoints == {"from_time_zone_record", "try_from_identifier_str", "try_from_str",
                "ffi_try_from_identifier_str", "ffi_try_from_offset_str",
                "ffi_try_from_str"}
ResolutionOps == {"get_possible_epoch_ns_for", "disambiguate_possible_epoch_nanos",
                  "get_epoch_nanoseconds_for", "get_start_of_day"}

\* C5: whenever possible_instants_for, resolve or start_of_day is called on
\* a fixed-offset zone built by a construction entry point, the offset is
\* not of sub-minute precision.
C5_NoSubMinuteOffsetResolved ==
    call.op \in ResolutionOps /\ tz.tag = "UtcOffset" /\ origin.entry \in EntryPoints
        => ~is_sub_minute(tz.offset)

\* C6: possible_instants_for returns a list only if every instant of it is
\* within the representable-instant bound.  For a named zone: a local date
\* outside the day range fails before the provider is queried; a provider
\* list with an instant out of bound fails the call; a list returned is the
\* provider's list.
C6_PossibleInstantsValidated ==
    PossibleFor =>
        /\ ret.res.tag = "Ok" => \A i \in DOMAIN ret.res.val : InBound(ret.res.val[i])
        /\ Named /\ Abs(call.iso.date) > MaxEpochDays => Failed(ret) /\ ret.log = <<>>
        /\ Named /\ ret.res.tag = "Ok" => Len(ret.log) = 1 /\ ret.res = AnswerAt(1)
        /\ Named /\ Len(ret.log) = 1 /\ AnswerAt(1).tag = "Ok"
               /\ (\E i \in DOMAIN AnswerAt(1).val : ~InBound(AnswerAt(1).val[i]))
               => ret.res.tag = "Err"

C6_Witness ==
    /\ PossibleFor
    /\ Named
    /\ Len(ret.log) = 1
    /\ AnswerAt(1) = Ok(<<I1, NS_MAX_INSTANT + 1>>)
    /\ ret.res = Err("InstantOutOfRange")

StartOfDay == call.op = "get_start_of_day"
Undetermined == Err("Could not determine the start of day for the provided date.")
ValidList(a) == a.tag = "Ok" /\ a.val /= <<>> /\ \A i \in DOMAIN a.val : InBound(a.val[i])
HourThree == IsoDateTime_new_unchecked(call.iso.date, IsoTime(3, 0, 0, 0))

\* midnight of the date is skipped by the forward transition of the zone
MidnightSkipped ==
    /\ StartOfDay
    /\ Named
    /\ ForwardZone(call.provider)
    /\ InGap(call.provider, call.iso)

\* C7: start_of_day returns the first candidate of midnight if there is
\* one.  If there is none, in a named zone, it returns the transition
\* instant the provider reports at the instant of the date's local hour 3,
\* and fails if the provider reports none; that instant is later than
\* midnight less the offset the provider reports there.  In a fixed-offset
\* zone the path of a skipped midnight is not reached.
C7_StartOfDay ==
    StartOfDay =>
        /\ Named /\ Scripted /\ call.iso.date = 0 =>
            LET p == call.provider IN
            /\ ValidList(p.cands[1]) => Returned(p.cands[1].val[1]) /\ Len(ret.log) = 1
            /\ p.cands[1] = Ok(<<>>) /\ ValidList(p.cands[2]) /\ p.offsets[1].tag = "Ok" =>
                /\ Len(ret.log) = 3
                /\ ret.log[2].arg = HourThree
                /\ ret.log[3].arg = p.cands[2].val[1]
                /\ IF IsSome(p.offsets[1].val.transition_epoch)
                   THEN Returned(Unwrap(p.offsets[1].val.transition_epoch) * NS_IN_S)
                   ELSE ret.res = Undetermined
        /\ Named /\ call.provider.kind = "zone" /\ Abs(call.iso.date) <= MaxEpochDays
                 /\ ValidList(Ok(ZoneCandidates(call.provider, call.iso)))
               => Returned(ZoneCandidates(call.provider, call.iso)[1])
        /\ MidnightSkipped =>
            /\ Returned(ZoneT(call.provider))
            /\ ret.res.val > as_nanoseconds(call.iso)
                             - ZoneOffsetAt(call.provider,
                                            ZoneCandidates(call.provider, HourThree)[1])
                               * NS_IN_S
        /\ tz.tag = "UtcOffset" =>
               ret.res.err \notin {"Timezone was not an Iana identifier.",
                                   "4. Assert: IsOffsetTimeZoneIdentifier(timeZone) is false."}

C7_Witness ==
    /\ MidnightSkipped
    /\ call.provider = ZoneProvider(0, -1800, 1800)
    /\ Returned(0)

RoundTripped == call.op = "from_utf8" /\ call.chained

\* C8 as stated: the text to_string writes for from_minutes(m) parses back
\* to the same offset, for every i16 m.
C8_RoundTripEveryMinute ==
    RoundTripped => ret.res = Ok(call.offset)

\* C8: the text to_string writes for from_minutes(m) parses back to the
\* same offset, for every m of magnitude below 24 hours.
C8_RoundTripWithinDay ==
    RoundTripped /\ Abs(call.offset) < 24 * NS_IN_HOUR => ret.res = Ok(call.offset)

C8_Witness ==
    /\ RoundTripped
    /\ call.offset = from_minutes(-570)
    /\ call.text = OffsetText("-", 9, 30)
    /\ ret.res = Ok(from_minutes(-570))

IdentifierOfText ==
    /\ call.op = "identifier"
    /\ origin.entry \in {"try_from_identifier_str", "ffi_try_from_identifier_str"}
    /\ \/ origin.text \in OffsetIdTexts
       \/ tz.tag = "IanaIdentifier" /\ tz.id = origin.text

\* C9 as stated: a zone built from an offset identifier SIGN HH:MM, or from
\* a name the provider normalizes to itself, has that text as identifier.
C9_IdentifierRoundTrip ==
    IdentifierOfText => ret.res.val = origin.text

\* C9: as above, except that the zero offset written with a minus sign has
\* the identifier +00:00.
C9_IdentifierRoundTripButMinusZero ==
    IdentifierOfText =>
        IF origin.text = OffsetText("-", 0, 0)
        THEN ret.res.val = OffsetText("+", 0, 0)
        ELSE ret.res.val = origin.text

C9_Witness ==
    /\ IdentifierOfText
    /\ origin.text = OffsetText("-", 9, 30)
    /\ ret.res.val = OffsetText("-", 9, 30)

\* C10: if a provider query of a call fails, the call fails with the error
\* of that query, and that query is the last the call makes.
C10_ProviderFailurePropagates ==
    Scripted =>
        \A i \in DOMAIN ret.log :
            AnswerAt(i).tag = "Err" => i = Len(ret.log) /\ ret.res = AnswerAt(i)

OffsetAt == call.op = "get_offset_nanos_for"

\* C11: offset_at of a fixed-offset zone returns the stored nanoseconds,
\* whatever the instant and the provider, and asks the provider nothing.
\* In a named zone it asks the provider once, for the offset of the zone at
\* the instant, and returns the provider's seconds as nanoseconds; it fails
\* exactly when that query fails, with the provider's error.
C11_OffsetAt ==
    OffsetAt =>
        IF tz.tag = "UtcOffset"
        THEN ret = Ret(Ok(tz.offset), <<>>)
        ELSE /\ ret.log = <<Query("get_named_tz_offset_nanoseconds", tz.id, call.instant)>>
             /\ IF AnswerAt(1).tag = "Ok"
                THEN Returned(AnswerAt(1).val.offset * NS_IN_S)
                ELSE ret.res = AnswerAt(1)

C11_Witness ==
    /\ OffsetAt
    /\ Named
    /\ call.provider = ZoneProvider(25200, -18000, -14400)
    /\ call.instant = 5 * NS_IN_HOUR + 30 * NS_IN_MIN
    /\ Returned(-18000 * NS_IN_S)

ReadOps == {"minutes", "nanoseconds", "is_sub_minute"}

\* the whole minutes of v, toward zero: the q of the sign of v (or 0) with
\* |q| minutes <= |v| < |q| + 1 minutes
WholeMinutes(v, q) ==
    /\ Abs(q) * NS_IN_MIN <= Abs(v)
    /\ Abs(v) < (Abs(q) + 1) * NS_IN_MIN
    /\ q /= 0 => (q > 0) = (v > 0)

\* C12: the readings of an offset never fail.  Of from_minutes(m), for an
\* i16 m: minutes() is m, nanoseconds() is m minutes in nanoseconds,
\* is_sub_minute() is false.  Of any value v held: minutes() is the whole
\* minutes of v toward zero if they fit an i16 and 0 if not, and
\* is_sub_minute() is true exactly when v is not a multiple of a minute.
C12_OffsetNarrowing ==
    call.op \in ReadOps =>
        /\ ret.res.tag = "Ok"
        /\ ret.log = <<>>
        /\ call.chained =>
            /\ InI16(call.offset)
            /\ call.op = "minutes" => ret.res.val = call.offset
            /\ call.op = "nanoseconds" => ret.res.val = call.offset * 60 * NS_IN_S
            /\ call.op = "is_sub_minute" => ret.res.val = FALSE
        /\ ~call.chained =>
            LET v == call.offset
                r == ret.res.val
            IN  /\ call.op = "minutes" =>
                    IF v >= (I16_MAX + 1) * NS_IN_MIN \/ v <= (I16_MIN - 1) * NS_IN_MIN
                    THEN r = 0
                    ELSE InI16(r) /\ WholeMinutes(v, r)
                /\ call.op = "nanoseconds" => r = v
                /\ call.op = "is_sub_minute" => r = (v % NS_IN_MIN /= 0)

\* a value of more whole minutes than an i16 holds reads as 0 minutes
C12_Witness ==
    /\ call.op = "minutes"
    /\ ~call.chained
    /\ call.offset = (I16_MAX + 1) * NS_IN_MIN + 1
    /\ Returned(0)

CandidatesQuery == "get_named_tz_epoch_nanoseconds"
OffsetQuery == "get_named_tz_offset_nanoseconds"

\* the queries of one resolution and of one start of day, in order
ResolveQueries ==
    <<CandidatesQuery, CandidatesQuery, OffsetQuery, OffsetQuery, CandidatesQuery>>
StartOfDayQueries == <<CandidatesQuery, CandidatesQuery, OffsetQuery>>

\* the queries of the call are the first ones of the list, in its order
AskedInOrder(order) ==
    /\ Len(ret.log) <= Len(order)
    /\ \A i \in DOMAIN ret.log : ret.log[i].fn = order[i]

\* C13: one call of the disambiguation asks the provider at most three
\* times for candidates and twice for an offset, in the order: candidates
\* of the local time three hours before, candidates of the local time
\* three hours after, offset at the first candidate before, offset at the
\* first candidate after, candidates of the shifted local time.  It asks
\* nothing when it is handed one or two candidates or the policy is
\* Reject.  One call of start_of_day asks at most twice for candidates
\* (midnight, then three o'clock) and then once for the offset and
\* transition.
C13_BoundedQueries ==
    /\ Disambiguated =>
        /\ AskedInOrder(ResolveQueries)
        /\ NumAsked(ret.log, CandidatesQuery) <= 3
        /\ NumAsked(ret.log, OffsetQuery) <= 2
        /\ Len(ret.log) >= 1 =>
               ret.log[1].arg = add_date_duration(call.iso, -3 * NS_IN_HOUR).val
        /\ Len(ret.log) >= 2 =>
               ret.log[2].arg = add_date_duration(call.iso, 3 * NS_IN_HOUR).val
        /\ Len(ret.log) >= 3 => ret.log[3].arg = AnswerAt(1).val[1]
        /\ Len(ret.log) >= 4 => ret.log[4].arg = AnswerAt(2).val[1]
        /\ Len(call.nanos) \in {1, 2} \/ call.disambiguation = "Reject" => ret.log = <<>>
    /\ StartOfDay =>
        /\ AskedInOrder(StartOfDayQueries)
        /\ NumAsked(ret.log, CandidatesQuery) <= 2
        /\ NumAsked(ret.log, OffsetQuery) <= 1
        /\ Len(ret.log) >= 1 => ret.log[1].arg = call.iso
        /\ Len(ret.log) >= 2 => ret.log[2].arg = HourThree

\* a resolution that asked all five queries and returned
C13_Witness ==
    /\ Disambiguated
    /\ Named
    /\ call.nanos = <<>>
    /\ call.disambiguation = "Later"
    /\ Len(ret.log) = 5
    /\ NumAsked(ret.log, CandidatesQuery) = 3
    /\ NumAsked(ret.log, OffsetQuery) = 2
    /\ ret.res.tag = "Ok"

\* C14: an instant start_of_day returns in a named zone is within the
\* representable bound, on the path of a skipped midnight too, where it is
\* the provider's transition epoch in seconds taken as nanoseconds; a value
\* out of the bound is an error, not a result.
C14_StartOfDayInBound ==
    StartOfDay /\ Named /\ ret.res.tag = "Ok" => InBound(ret.res.val)

====
